---- MODULE Spec2Model ----
(***************************************************************************)
(* Formatting-structure construction of weasy/formatting_structure/build.py *)
(* dom_to_box, inline_in_block, block_in_inline and process_whitespace,     *)
(* as run in sequence by build_formatting_structure.                        *)
(*                                                                          *)
(* A box is a record [kind, id, element, children].  `id` is the identity   *)
(* of the Python object (what `is` compares): the boxes a stage receives    *)
(* have distinct ids >= 1 and every object a stage allocates has id 0.      *)
(* `element` is what copy() carries over: the source element of the box     *)
(* (for a TextBox it numbers its (element, text) payload).                  *)
(***************************************************************************)
EXTENDS Integers, Sequences, FiniteSets, TLC

VARIABLES pc, tree, box, prev, leaves, orig, first, idx, following_collapsible_space

vars == <<pc, tree, box, prev, leaves, orig, first, idx, following_collapsible_space>>

treeVars == <<tree, box, prev>>
wsVars == <<leaves, orig, first, idx, following_collapsible_space>>

\* Bounds of the model: the boxes dom_to_box makes, the text leaves a tree
\* holds and the characters of a text.
MaxNodes == 5
MaxLeaves == 3
MaxTextLen == 2

----------------------------------------------------------------------------
\* The box classes (weasy/formatting_structure/boxes.py).

Box(kind, id, element, children) ==
    [kind |-> kind, id |-> id, element |-> element, children |-> children]

None == Box("None", 0, 0, <<>>)

AssertionError == Box("AssertionError", 0, 0, <<>>)

IsBlockLevel(b) == b.kind \in {"BlockBox", "AnonymousBlockBox"}

IsBlockContainer(b) == b.kind \in {"BlockBox", "AnonymousBlockBox", "InlineBlockBox"}

IsParent(b) ==
    b.kind \in {"BlockBox", "AnonymousBlockBox", "InlineBlockBox", "InlineBox", "LineBox"}

\* box.copy(): a new object with the same attributes.
Copy(b) == [b EXCEPT !.id = 0]

\* boxes.LineBox(box.document, box.element) filled with children.
LineBox(b, children) == Box("LineBox", 0, b.element, children)

RECURSIVE Size(_)
Size(b) ==
    LET RECURSIVE Sum(_)
        Sum(i) == IF i = 0 THEN 0 ELSE Size(b.children[i]) + Sum(i - 1)
    IN  1 + Sum(Len(b.children))

RECURSIVE SubBoxes(_)
SubBoxes(b) ==
    {b} \cup UNION {SubBoxes(b.children[i]) : i \in 1..Len(b.children)}

\* Object identity: every box of the tree is an object of its own, numbered
\* here in document order from `start`.
RECURSIVE Objects(_, _)
Objects(b, start) ==
    LET RECURSIVE Kids(_, _)
        Kids(i, n) ==
            IF i > Len(b.children) THEN <<>>
            ELSE <<Objects(b.children[i], n)>> \o Kids(i + 1, n + Size(b.children[i]))
    IN  IF b.kind = "None" THEN b
        ELSE [b EXCEPT !.id = start, !.children = Kids(1, start + 1)]

\* The structure of a tree, whatever objects hold it.
RECURSIVE Structure(_)
Structure(b) ==
    [b EXCEPT !.id = 0,
              !.children = [i \in 1..Len(b.children) |-> Structure(b.children[i])]]

----------------------------------------------------------------------------
\* dom_to_box: boxes are created and added in document order, so every
\* add_child appends to a box on the rightmost path of the tree built so far.

ElementKinds == {"BlockBox", "InlineBox", "InlineBlockBox"}

RECURSIVE SpineDepth(_)
SpineDepth(b) ==
    IF b.children = <<>> THEN 0 ELSE 1 + SpineDepth(b.children[Len(b.children)])

RECURSIVE SpineBox(_, _)
SpineBox(b, depth) ==
    IF depth = 0 THEN b ELSE SpineBox(b.children[Len(b.children)], depth - 1)

RECURSIVE add_child(_, _, _)
add_child(b, depth, child) ==
    IF depth = 0 THEN [b EXCEPT !.children = Append(@, child)]
    ELSE [b EXCEPT !.children[Len(b.children)] = add_child(@, depth - 1, child)]

----------------------------------------------------------------------------
\* inline_in_block

AnonymousBlockBox(b, child) == Box("AnonymousBlockBox", 0, b.element, <<child>>)

\* A line box found among the children is nested, not merged.
AddToLineNested(line, child_box) == Append(line, child_box)

\* Lines 252-257: a line box found among the children is merged into the
\* line box being made, any other inline-level box is added to it.
AddToLine(line, child_box) ==
    IF child_box.kind = "LineBox" THEN line \o child_box.children
    ELSE Append(line, child_box)

\* Lines 243-257, one iteration: st.children is box.children as rebuilt so
\* far, st.line the children of the open line_box.
InlineInBlockStep(b, st, child_box) ==
    IF IsBlockLevel(child_box)
    THEN IF st.line # <<>>
         THEN [children |-> st.children
                              \o <<AnonymousBlockBox(b, LineBox(b, st.line)), child_box>>,
               line |-> <<>>]
         ELSE [children |-> Append(st.children, child_box), line |-> st.line]
    ELSE [children |-> st.children, line |-> AddToLine(st.line, child_box)]

\* The last line box is added bare whatever was added before it.
InlineInBlockEndBare(b, st) ==
    IF st.line # <<>> THEN Append(st.children, LineBox(b, st.line))
    ELSE st.children

\* Lines 258-266: the inlines at the end.
InlineInBlockEnd(b, st) ==
    IF st.line # <<>>
    THEN IF st.children # <<>>
         THEN Append(st.children, AnonymousBlockBox(b, LineBox(b, st.line)))
         ELSE <<LineBox(b, st.line)>>
    ELSE st.children

\* The box tree after inline_in_block(box), which changes it in place.
RECURSIVE InlineInBlock(_)
InlineInBlock(b) ==
    LET children == [i \in 1..Len(b.children) |-> InlineInBlock(b.children[i])]
        RECURSIVE Loop(_, _)
        Loop(i, st) ==
            IF i > Len(children) THEN st
            ELSE Loop(i + 1, InlineInBlockStep(b, st, children[i]))
    IN  IF ~IsBlockContainer(b) THEN [b EXCEPT !.children = children]
        ELSE [b EXCEPT !.children =
                 InlineInBlockEnd(b, Loop(1, [children |-> <<>>, line |-> <<>>]))]

\* What inline_in_block(box) returns: box for a block container (line 267),
\* nothing for any other box (line 237).
inline_in_block(b) == IF ~IsBlockContainer(b) THEN None ELSE InlineInBlock(b)

----------------------------------------------------------------------------
\* block_in_inline and _inner_block_in_inline.
\* A skip_stack / resume_at is the sequence of its indexes: None is <<>> and
\* the tuple (index, rest) is <<index>> \o rest.

\* enumerate_skip(skip): the 0-based indexes left to visit.
enumerate_skip(b, skip) == {i \in 0..(Len(b.children) - 1) : i >= skip}

\* The copy is returned whether or not anything changed.
InnerNoBlockCopy(b, new_children, changed, skip) ==
    [Copy(b) EXCEPT !.children = new_children]

\* Lines 429-431, the loop's else: the box itself when nothing changed and
\* nothing was skipped, the copy otherwise.
InnerNoBlock(b, new_children, changed, skip) ==
    IF ~(changed \/ skip # 0) THEN b
    ELSE [Copy(b) EXCEPT !.children = new_children]

\* The last line box is never wrapped.
LastNewChildBare(b, new_children, new_line) == new_line

\* The last line box is always wrapped.
LastNewChildWrapped(b, new_children, new_line) == AnonymousBlockBox(b, new_line)

\* Lines 351-358: the line box left after the last block-level box.
LastNewChild(b, new_children, new_line) ==
    IF new_children # <<>> THEN AnonymousBlockBox(b, new_line) ELSE new_line

RECURSIVE block_in_inline(_)
RECURSIVE _inner_block_in_inline(_, _)

\* An InlineBox child is kept as it is, not searched.
InnerNewChildShallow(child, skip_stack) ==
    [new_box |-> IF IsParent(child) /\ child.kind # "InlineBox"
                 THEN block_in_inline(child) ELSE child,
     block_level_box |-> None,
     resume_at |-> <<>>]

\* Lines 412-421: the new child for a child that is not block-level, with
\* the block-level box and the resume_at found in it (InlineBox) or none.
InnerNewChild(child, skip_stack) ==
    IF child.kind = "InlineBox"
    THEN _inner_block_in_inline(child, skip_stack)
    ELSE [new_box |-> IF IsParent(child) THEN block_in_inline(child) ELSE child,
          block_level_box |-> None,
          resume_at |-> <<>>]

\* Lines 396-432.  The same skip_stack goes to every InlineBox child the loop
\* visits (line 413).  resume_at is still None when line 427 is reached
\* through line 409.
_inner_block_in_inline(b, stack) ==
    LET skip == IF stack = <<>> THEN 0 ELSE Head(stack)
        skip_stack == IF stack = <<>> THEN <<>> ELSE Tail(stack)
        RECURSIVE Loop(_, _, _)
        Loop(index, new_children, changed) ==
            IF index \notin enumerate_skip(b, skip)
            THEN [new_box |-> InnerNoBlock(b, new_children, changed, skip),
                  block_level_box |-> None,
                  resume_at |-> <<>>]
            ELSE LET child == b.children[index + 1] IN
                 IF IsBlockLevel(child)
                 THEN [new_box |-> [Copy(b) EXCEPT !.children = new_children],
                       block_level_box |-> child,
                       resume_at |-> <<index + 1>>]
                 ELSE LET r == InnerNewChild(child, skip_stack)
                          kids == Append(new_children, r.new_box)
                      IN  IF r.block_level_box # None
                          THEN [new_box |-> [Copy(b) EXCEPT !.children = kids],
                                block_level_box |-> r.block_level_box,
                                resume_at |-> <<index>> \o r.resume_at]
                          ELSE Loop(index + 1, kids, changed \/ r.new_box # child)
    IN  Loop(skip, <<>>, FALSE)

\* Lines 341-358: the new children made from the line box `child`.
BlockInInlineLine(b, child) ==
    LET RECURSIVE While(_, _)
        While(stack, new_children) ==
            LET r == _inner_block_in_inline(child, stack) IN
            IF r.block_level_box = None
            THEN Append(new_children, LastNewChild(b, new_children, r.new_box))
            ELSE While(r.resume_at,
                       new_children \o <<AnonymousBlockBox(b, r.new_box),
                                         block_in_inline(r.block_level_box)>>)
    IN  IF Len(b.children) # 1 THEN <<AssertionError>> ELSE While(<<>>, <<>>)

\* Lines 331-374.
block_in_inline(b) ==
    LET RECURSIVE For(_, _, _)
        For(i, new_children, changed) ==
            IF i > Len(b.children)
            THEN IF changed THEN [Copy(b) EXCEPT !.children = new_children] ELSE b
            ELSE LET child == b.children[i] IN
                 IF child.kind = "LineBox"
                 THEN LET made == BlockInInlineLine(b, child) IN
                      For(i + 1, new_children \o made,
                          changed \/ made[Len(made)] # child)
                 ELSE LET new_child == block_in_inline(child) IN
                      For(i + 1, Append(new_children, new_child),
                          changed \/ new_child # child)
    IN  IF ~IsParent(b) THEN b ELSE For(1, <<>>, FALSE)

\* An assertion failed somewhere in the call.
Raised(b) == \E x \in SubBoxes(b) : x.kind = "AssertionError"

----------------------------------------------------------------------------
\* process_whitespace.  A text is a sequence of characters, each named:
\* SP is U+0020, TAB \t, LF \n, CR \r, NBSP U+00A0, ZWSP U+200B.

\* The characters of the texts the model starts from.
Chars == {"SP", "LF", "a"}

Handlings == {"normal", "nowrap", "pre", "pre-wrap", "pre-line"}

Collapsing == {"normal", "nowrap", "pre-line"}

\* str.replace(old, new) for single characters.
replace(text, old, new) ==
    [i \in 1..Len(text) |-> IF text[i] = old THEN new ELSE text[i]]

\* The end of the run of [\t\r ] that starts at i.
RECURSIVE RunEnd(_, _)
RunEnd(text, i) ==
    IF i <= Len(text) /\ text[i] \in {"TAB", "CR", "SP"} THEN RunEnd(text, i + 1)
    ELSE i

\* re.sub('[\t\r ]*\n[\t\r ]*', '\n', text), line 164: leftmost greedy matches.
RECURSIVE SubNewline(_, _)
SubNewline(text, i) ==
    IF i > Len(text) THEN <<>>
    ELSE LET j == RunEnd(text, i) IN
         IF j <= Len(text) /\ text[j] = "LF"
         THEN <<"LF">> \o SubNewline(text, RunEnd(text, j + 1))
         ELSE <<text[i]>> \o SubNewline(text, i + 1)

\* re.sub(u'\xA0([^\xA0]|$)', u'\xA0\u200B\\1', text), line 172.
RECURSIVE SubBreak(_, _)
SubBreak(text, i) ==
    IF i > Len(text) THEN <<>>
    ELSE IF text[i] = "NBSP" /\ i = Len(text) THEN <<"NBSP", "ZWSP">>
    ELSE IF text[i] = "NBSP" /\ text[i + 1] # "NBSP"
         THEN <<"NBSP", "ZWSP", text[i + 1]>> \o SubBreak(text, i + 2)
    ELSE <<text[i]>> \o SubBreak(text, i + 1)

\* re.sub(' +', ' ', text), line 182.
RECURSIVE SubSpaces(_, _)
SubSpaces(text, i) ==
    IF i > Len(text) THEN <<>>
    ELSE IF text[i] = "SP"
         THEN <<"SP">> \o SubSpaces(text, CHOOSE j \in (i + 1)..(Len(text) + 1) :
                                 /\ \A k \in i..(j - 1) : text[k] = "SP"
                                 /\ (j <= Len(text) => text[j] # "SP"))
    ELSE <<text[i]>> \o SubSpaces(text, i + 1)

startswith(text, c) == text # <<>> /\ text[1] = c

endswith(text, c) == text # <<>> /\ text[Len(text)] = c

\* Lines 163-178: the text before the spaces are collapsed.
Transformed(text, handling) ==
    LET t1 == IF handling \in {"normal", "nowrap", "pre-line"}
              THEN SubNewline(text, 1) ELSE text
    IN  IF handling \in {"pre", "pre-wrap"}
        THEN LET t2 == replace(t1, "SP", "NBSP") IN
             IF handling = "pre-wrap" THEN SubBreak(t2, 1) ELSE t2
        ELSE IF handling \in {"normal", "nowrap"} THEN replace(t1, "LF", "SP")
        ELSE t1

\* Lines 180-184: the text stored in a box that collapses its spaces.
Collapsed(text, following) ==
    LET t == SubSpaces(replace(text, "TAB", "SP"), 1) IN
    IF following /\ startswith(t, "SP") THEN Tail(t) ELSE t

\* Lines 160-189 for one TextBox: its new text and the new flag.
ProcessText(text, handling, following) ==
    LET t == Transformed(text, handling) IN
    IF handling \in {"normal", "nowrap", "pre-line"}
    THEN LET c == Collapsed(t, following) IN
         [text |-> c, following |-> endswith(c, "SP")]
    ELSE [text |-> t, following |-> FALSE]

Texts == UNION {[1..n -> Chars] : n \in 1..MaxTextLen}

TextBoxes == [utf8_text : Texts, white_space : Handlings]

----------------------------------------------------------------------------
TypeOK == pc \in {"dom_to_box", "inline_in_block", "inline_in_block2",
                  "block_in_inline", "block_in_inline2",
                  "process_whitespace", "process_whitespace2", "done"}

InitWS ==
    /\ leaves = <<>>
    /\ orig = <<>>
    /\ first = <<>>
    /\ idx = 0
    /\ following_collapsible_space = FALSE

Init ==
    /\ pc = "dom_to_box"
    /\ tree \in {Box(k, 1, 1, <<>>) : k \in ElementKinds}
    /\ box = None
    /\ prev = None
    /\ InitWS

\* dom_to_box, lines 95-107: a TextBox or the box of a child element is added.
AddChild ==
    /\ pc = "dom_to_box"
    /\ Size(tree) < MaxNodes
    /\ \E depth \in 0..SpineDepth(tree), kind \in ElementKinds \cup {"TextBox"} :
          /\ IsParent(SpineBox(tree, depth))
          /\ tree' = add_child(tree, depth,
                               Box(kind, Size(tree) + 1, Size(tree) + 1, <<>>))
    /\ UNCHANGED <<pc, box, prev, wsVars>>

\* build_formatting_structure, line 45.
CallInlineInBlock ==
    /\ pc = "dom_to_box"
    /\ pc' = "inline_in_block"
    /\ prev' = tree
    /\ tree' = InlineInBlock(tree)
    /\ box' = inline_in_block(tree)
    /\ UNCHANGED wsVars

\* inline_in_block applied to its own result.
CallInlineInBlockAgain ==
    /\ pc = "inline_in_block"
    /\ pc' = "inline_in_block2"
    /\ prev' = box
    /\ box' = inline_in_block(box)
    /\ UNCHANGED <<tree, wsVars>>

\* build_formatting_structure, line 46.
CallBlockInInline ==
    /\ pc = "inline_in_block"
    /\ pc' = "block_in_inline"
    /\ LET in == Objects(box, 1)
           out == block_in_inline(in)
       IN  /\ prev' = in
           /\ box' = IF Raised(out) THEN AssertionError ELSE out
    /\ UNCHANGED <<tree, wsVars>>

\* block_in_inline applied to its own result.
CallBlockInInlineAgain ==
    /\ pc = "block_in_inline"
    /\ pc' = "block_in_inline2"
    /\ LET in == Objects(box, 1)
           out == block_in_inline(in)
       IN  /\ prev' = in
           /\ box' = IF Raised(out) THEN AssertionError ELSE out
    /\ UNCHANGED <<tree, wsVars>>

Next ==
    \/ AddChild
    \/ CallInlineInBlock
    \/ CallInlineInBlockAgain
    \/ CallBlockInInline
    \/ CallBlockInInlineAgain

Spec == Init /\ [][Next]_vars

----------------------------------------------------------------------------
\* process_whitespace run twice over the text leaves of a tree, which
\* box.descendants() yields in document order.

InitText ==
    /\ pc = "process_whitespace"
    /\ tree = None
    /\ box = None
    /\ prev = None
    /\ leaves \in UNION {[1..n -> TextBoxes] : n \in 1..MaxLeaves}
    /\ orig = leaves
    /\ first = <<>>
    /\ idx = 0
    /\ following_collapsible_space = FALSE

\* Lines 155-157: a box with no text is passed over.
SkipChild ==
    /\ pc \in {"process_whitespace", "process_whitespace2"}
    /\ idx < Len(leaves)
    /\ leaves[idx + 1].utf8_text = <<>>
    /\ idx' = idx + 1
    /\ UNCHANGED <<pc, treeVars, leaves, orig, first, following_collapsible_space>>

\* Lines 155-189: one TextBox with text.
VisitTextBox ==
    /\ pc \in {"process_whitespace", "process_whitespace2"}
    /\ idx < Len(leaves)
    /\ leaves[idx + 1].utf8_text # <<>>
    /\ LET child == leaves[idx + 1]
           r == ProcessText(child.utf8_text, child.white_space,
                            following_collapsible_space)
       IN  /\ leaves' = [leaves EXCEPT ![idx + 1].utf8_text = r.text]
           /\ following_collapsible_space' = r.following
    /\ idx' = idx + 1
    /\ UNCHANGED <<pc, treeVars, orig, first>>

\* Line 190, and process_whitespace called again on the tree it returned.
ReturnAndCallAgain ==
    /\ pc = "process_whitespace"
    /\ idx = Len(leaves)
    /\ pc' = "process_whitespace2"
    /\ first' = leaves
    /\ idx' = 0
    /\ following_collapsible_space' = FALSE
    /\ UNCHANGED <<treeVars, leaves, orig>>

\* Line 190 of the second call.
Return ==
    /\ pc = "process_whitespace2"
    /\ idx = Len(leaves)
    /\ pc' = "done"
    /\ UNCHANGED <<treeVars, wsVars>>

NextText == SkipChild \/ VisitTextBox \/ ReturnAndCallAgain \/ Return

SpecText == InitText /\ [][NextText]_vars
----------------------------------------------------------------------------
\* What the claims speak of.

\* A block-level box is reached from b by walking through InlineBox children.
RECURSIVE ReachesBlock(_)
ReachesBlock(b) ==
    \E i \in 1..Len(b.children) :
        \/ IsBlockLevel(b.children[i])
        \/ b.children[i].kind = "InlineBox" /\ ReachesBlock(b.children[i])

\* The parent boxes whose single child is a LineBox.
LineParents(b) ==
    {p \in SubBoxes(b) : Len(p.children) = 1 /\ p.children[1].kind = "LineBox"}

\* The leaf boxes (text and atomic inline-level boxes) and the block-level
\* boxes of an inline formatting context in document order, by element; the
\* walk goes through InlineBox, LineBox and AnonymousBlockBox only.
RECURSIVE Flat(_)
Flat(b) ==
    LET RECURSIVE Cat(_)
        Cat(i) == IF i > Len(b.children) THEN <<>>
                  ELSE Flat(b.children[i]) \o Cat(i + 1)
    IN  IF b.kind \in {"InlineBox", "LineBox", "AnonymousBlockBox"} THEN Cat(1)
        ELSE <<b.element>>

FlatChildren(b) == Flat([b EXCEPT !.kind = "LineBox"])

NoBlockInLine(b) ==
    \A l \in SubBoxes(b) : l.kind = "LineBox" => ~ReachesBlock(l)

\* C1: block_in_inline keeps, for every parent box whose single child is a
\* LineBox, the document-order sequence of leaf boxes and block-level boxes
\* of that line box: nothing dropped, duplicated or reordered.
C1_OrderPreserved ==
    pc = "block_in_inline" =>
        \A p \in LineParents(prev) :
            FlatChildren(block_in_inline(p)) = Flat(p.children[1])

\* C2: after block_in_inline no LineBox has a block-level box reachable
\* through InlineBox children.
C2_NoBlockInLine ==
    pc = "block_in_inline" => NoBlockInLine(box)

C2_Witness ==
    /\ pc = "block_in_inline"
    /\ ~NoBlockInLine(prev)
    /\ \E l \in SubBoxes(box) : l.kind = "LineBox"

\* C5: block_in_inline applied to its own output returns a structurally
\* identical tree.
C5_Idempotent ==
    pc = "block_in_inline2" => Structure(box) = Structure(prev)

C5_Witness ==
    /\ pc = "block_in_inline2"
    /\ ~NoBlockInLine(tree)
    /\ box.kind = "BlockBox"
    /\ Structure(box) # Structure(tree)

\* C6: inline_in_block applied to its own result yields a structurally
\* identical tree.
C6_Idempotent ==
    pc = "inline_in_block2" =>
        /\ Structure(box) = Structure(prev)
        /\ Structure(InlineInBlock(tree)) = Structure(tree)

C6_Witness ==
    /\ pc = "inline_in_block2"
    /\ \E x \in SubBoxes(box) : x.kind = "AnonymousBlockBox"
    /\ \E p \in LineParents(box) : p.kind = "BlockBox"

\* C8 as stated: a parent box whose single LineBox child has no block-level
\* box reachable through InlineBox children comes back as the same object.
C8_Original ==
    pc = "block_in_inline" =>
        \A p \in LineParents(prev) :
            ~ReachesBlock(p.children[1]) => block_in_inline(p) = p

\* The texts of leaves i..j, joined.
RECURSIVE Joined(_, _, _)
Joined(ls, i, j) ==
    IF i > j THEN <<>> ELSE ls[i].utf8_text \o Joined(ls, i + 1, j)

\* C9: when every text leaf uses white-space: normal, process_whitespace
\* applied to its own output leaves the text of every leaf unchanged.
C9_IdempotentNormal ==
    (pc = "done" /\ \A i \in 1..Len(orig) : orig[i].white_space = "normal")
        => leaves = first

\* C10: after process_whitespace the joined texts of consecutive leaves that
\* all use a collapsing mode contain no two adjacent spaces.
C10_NoDoubleSpace ==
    pc = "process_whitespace2" =>
        \A i \in 1..Len(first) : \A j \in i..Len(first) :
            (\A k \in i..j : first[k].white_space \in Collapsing) =>
                LET t == Joined(first, i, j) IN
                \A n \in 1..(Len(t) - 1) : ~(t[n] = "SP" /\ t[n + 1] = "SP")

\* The elements of the children of a block container once the anonymous
\* block boxes and line boxes around them are taken away.
Unwrapped(b) ==
    LET RECURSIVE Cat(_)
        Cat(i) ==
            IF i > Len(b.children) THEN <<>>
            ELSE LET c == b.children[i]
                     inner == IF c.kind = "AnonymousBlockBox" /\ Len(c.children) = 1
                              THEN c.children[1] ELSE c
                 IN  (IF inner.kind = "LineBox"
                      THEN [k \in 1..Len(inner.children) |-> inner.children[k].element]
                      ELSE <<c.element>>) \o Cat(i + 1)
    IN  Cat(1)

IsNonEmptyLine(l) == l.kind = "LineBox" /\ l.children # <<>>

\* The three shapes of the children of a block container.
Shaped(b) ==
    \/ b.children = <<>>
    \/ Len(b.children) = 1 /\ IsNonEmptyLine(b.children[1])
    \/ /\ \A i \in 1..Len(b.children) :
              /\ IsBlockLevel(b.children[i])
              /\ b.children[i].kind = "AnonymousBlockBox" =>
                    /\ Len(b.children[i].children) = 1
                    /\ IsNonEmptyLine(b.children[i].children[1])
       /\ \A i \in 1..(Len(b.children) - 1) :
              ~(b.children[i].kind = "AnonymousBlockBox"
                /\ b.children[i + 1].kind = "AnonymousBlockBox")

\* C3: after inline_in_block every block container has no children, one
\* non-empty LineBox, or only block-level boxes with well-formed and
\* non-adjacent anonymous blocks; its original children keep their order.
C3_Shapes ==
    pc = "inline_in_block" =>
        \A b \in SubBoxes(tree) :
            IsBlockContainer(b) =>
                /\ Shaped(b)
                /\ b.kind # "AnonymousBlockBox" =>
                      \A o \in SubBoxes(prev) :
                          o.element = b.element =>
                              Unwrapped(b) = [k \in 1..Len(o.children) |->
                                                 o.children[k].element]

C3_Witness ==
    /\ pc = "inline_in_block"
    /\ \E b \in SubBoxes(tree) :
          /\ b.kind = "BlockBox"
          /\ Len(b.children) = 2
          /\ b.children[1].kind = "AnonymousBlockBox"
          /\ b.children[2].kind = "BlockBox"
          /\ Len(b.children[1].children[1].children) = 2

\* C4: inline_in_block returns a box for every box, the same box when it is
\* not a block container.
C4_ReturnsBox ==
    pc = "inline_in_block" => box = tree

C8_Identity ==
    pc = "block_in_inline" =>
        \A p \in LineParents(prev) :
            NoBlockInLine(p) => block_in_inline(p) = p

C8_Witness ==
    /\ pc = "block_in_inline"
    /\ box = prev
    /\ box.kind = "BlockBox"
    /\ box \in LineParents(prev)
    /\ \E x \in SubBoxes(box) : x.kind = "InlineBlockBox" /\ x.children # <<>>
    /\ \E x \in SubBoxes(box) : x.kind = "InlineBox" /\ x.children # <<>>
====
